---- MODULE Spec2Model ----
(***************************************************************************)
(* The canvas persistence worker (src/test.js, lines 141-480): one         *)
(* WebSocket session per connection, one asynchronous handler per inbound  *)
(* frame, a key-value store (CANVAS_STORAGE) holding one JSON text per     *)
(* map under the key canvas:<MapIdent>.                                     *)
(*                                                                         *)
(* A handler runs without interruption between two awaits (the JavaScript  *)
(* event loop); it is suspended while a store get or put is pending and    *)
(* while sendChunkedCanvasData waits for its inter-chunk timer.  The store *)
(* is modelled as one atomic register per key: a get returns the value the *)
(* key holds at the moment the get resolves, a put replaces it at the      *)
(* moment the put resolves, and either may reject instead.                 *)
(***************************************************************************)
EXTENDS Integers, Sequences, FiniteSets, TLC

(***************************************************************************)
(* JavaScript values, as far as JSON.parse can produce them.  A number is  *)
(* either finite or, for a literal beyond the double range (1e999), the    *)
(* value Infinity.  A string is a sequence of characters: a TLA+ string    *)
(* where only its length and identity matter, a tuple of one-character     *)
(* strings where its characters are inspected (map identifiers).           *)
(***************************************************************************)
Undefined == [k |-> "undefined"]
Null == [k |-> "null"]
Bool(b) == [k |-> "boolean", b |-> b]
Num(n) == [k |-> "number", fin |-> TRUE, n |-> n]
Infinity == [k |-> "number", fin |-> FALSE, n |-> 0]
Str(s) == [k |-> "string", s |-> s]
Arr(a) == [k |-> "array", a |-> a]
Obj(o) == [k |-> "object", o |-> o]

\* typeof v
TypeOf(v) == IF v.k \in {"null", "array"} THEN "object" ELSE v.k

\* ToBoolean(v): what `v && ...` and `!v` test
Truthy(v) ==
  CASE v.k \in {"undefined", "null"} -> FALSE
    [] v.k = "boolean" -> v.b
    [] v.k = "number" -> (v.fin => v.n # 0)
    [] v.k = "string" -> Len(v.s) > 0
    [] OTHER -> TRUE

\* v.f for a v that is neither null nor undefined (for those the access throws)
Prop(v, f) == IF v.k = "object" /\ f \in DOMAIN v.o THEN v.o[f] ELSE Undefined

\* a === b on the values above
StrictEq(a, b) == a.k = b.k /\ a = b

(***************************************************************************)
(* JSON text.  A text either is well-formed JSON, given by its syntax      *)
(* tree, or is not.  JSON.parse reads a tree as the value of the same      *)
(* shape (the literal 1e999 as Infinity) and throws on other text;         *)
(* JSON.stringify writes a non-finite number and an undefined array        *)
(* element as null and leaves out a property whose value is undefined.     *)
(***************************************************************************)
RECURSIVE ToJSON(_)
ToJSON(v) ==
  CASE v.k = "number" -> IF v.fin THEN v ELSE Null
    [] v.k = "undefined" -> Null
    [] v.k = "array" -> Arr([i \in DOMAIN v.a |-> ToJSON(v.a[i])])
    [] v.k = "object" ->
         Obj([f \in {g \in DOMAIN v.o : v.o[g].k # "undefined"} |-> ToJSON(v.o[f])])
    [] OTHER -> v

JSONstringify(v) == [ok |-> TRUE, json |-> ToJSON(v)]

NotJSON == [ok |-> FALSE, json |-> Null]

\* deliberately wrong variant: a parse that never throws
JSONparseNeverThrows(text) == FALSE

\* JSON.parse(text) for a text that parses; JSONparseThrows(text) otherwise
JSONparseThrows(text) == ~text.ok
JSONparse(text) == text.json

(***************************************************************************)
(* CONFIG                                                                   *)
(***************************************************************************)
MAX_MESSAGE_SIZE == 1000000
CHUNK_SIZE == 100

(***************************************************************************)
(* Validation                                                               *)
(***************************************************************************)
Lower == {"a","b","c","d","e","f","g","h","i","j","k","l","m",
          "n","o","p","q","r","s","t","u","v","w","x","y","z"}
Upper == {"A","B","C","D","E","F","G","H","I","J","K","L","M",
          "N","O","P","Q","R","S","T","U","V","W","X","Y","Z"}
Digit == {"0","1","2","3","4","5","6","7","8","9"}
\* the character class of /^[a-zA-Z0-9._-]+$/
MapIdChars == Lower \cup Upper \cup Digit \cup {".", "_", "-"}

\* deliberately wrong variant: no upper limit on the length
validateMapIdNoLimit(mapIdent) ==
  /\ Truthy(mapIdent)
  /\ TypeOf(mapIdent) = "string"
  /\ Len(mapIdent.s) > 0
  /\ \A i \in 1..Len(mapIdent.s) : mapIdent.s[i] \in MapIdChars

validateMapId(mapIdent) ==
  /\ Truthy(mapIdent)
  /\ TypeOf(mapIdent) = "string"
  /\ Len(mapIdent.s) > 0
  /\ Len(mapIdent.s) <= 100
  /\ \A i \in 1..Len(mapIdent.s) : mapIdent.s[i] \in MapIdChars

validatePixelData(pixelData) ==
  /\ Truthy(pixelData)
  /\ Truthy(Prop(pixelData, "Position"))
  /\ TypeOf(Prop(Prop(pixelData, "Position"), "x")) = "number"
  /\ TypeOf(Prop(Prop(pixelData, "Position"), "y")) = "number"
  /\ Truthy(Prop(pixelData, "Color"))
  /\ TypeOf(Prop(Prop(pixelData, "Color"), "r")) = "number"
  /\ TypeOf(Prop(Prop(pixelData, "Color"), "g")) = "number"
  /\ TypeOf(Prop(Prop(pixelData, "Color"), "b")) = "number"
  /\ TypeOf(Prop(Prop(pixelData, "Color"), "a")) = "number"
  /\ TypeOf(Prop(pixelData, "PlacedBy")) = "string"
  /\ TypeOf(Prop(pixelData, "IsActive")) = "boolean"

(***************************************************************************)
(* The merge of handlePixelUpdate, on the element sequence of the loaded   *)
(* array.                                                                   *)
(***************************************************************************)
\* p.Position.x === pixelData.Position.x && p.Position.y === pixelData.Position.y
SamePosition(p, pixelData) ==
  /\ StrictEq(Prop(Prop(p, "Position"), "x"), Prop(Prop(pixelData, "Position"), "x"))
  /\ StrictEq(Prop(Prop(p, "Position"), "y"), Prop(Prop(pixelData, "Position"), "y"))

\* canvasData.findIndex(...): 1-based here, 0 for JavaScript's -1
FindIndex(canvasData, pixelData) ==
  LET hits == {i \in 1..Len(canvasData) : SamePosition(canvasData[i], pixelData)}
  IN  IF hits = {} THEN 0 ELSE CHOOSE i \in hits : \A j \in hits : i <= j

\* deliberately wrong variant: the filter's test inverted: keeps the entries at the position
FilterOutInverted(canvasData, pixelData) ==
  SelectSeq(canvasData, LAMBDA p : SamePosition(p, pixelData))

\* canvasData.filter(p => !(same position))
FilterOut(canvasData, pixelData) ==
  SelectSeq(canvasData, LAMBDA p : ~SamePosition(p, pixelData))

\* deliberately wrong variant: the first entry found is replaced and the other
\* entries at the position are removed
ApplyUpdateKeepingOne(canvasData, pixelData) ==
  IF Truthy(Prop(pixelData, "IsActive"))
  THEN LET existingIndex == FindIndex(canvasData, pixelData)
       IN  IF existingIndex >= 1
           THEN SubSeq(canvasData, 1, existingIndex - 1) \o <<pixelData>>
                \o SelectSeq(SubSeq(canvasData, existingIndex + 1, Len(canvasData)),
                             LAMBDA p : ~SamePosition(p, pixelData))
           ELSE Append(canvasData, pixelData)
  ELSE FilterOut(canvasData, pixelData)

\* deliberately wrong variant: an entry found is removed and the pixel appended
ApplyUpdateAtEnd(canvasData, pixelData) ==
  IF Truthy(Prop(pixelData, "IsActive"))
  THEN Append(SelectSeq(canvasData, LAMBDA p : ~SamePosition(p, pixelData)), pixelData)
  ELSE SelectSeq(canvasData, LAMBDA p : ~SamePosition(p, pixelData))

ApplyUpdate(canvasData, pixelData) ==
  IF Truthy(Prop(pixelData, "IsActive"))
  THEN LET existingIndex == FindIndex(canvasData, pixelData)
       IN  IF existingIndex >= 1
           THEN [canvasData EXCEPT ![existingIndex] = pixelData]
           ELSE Append(canvasData, pixelData)
  ELSE FilterOut(canvasData, pixelData)

\* the merge reads p.Position.x of the entries it visits (findIndex up to its
\* first hit, filter all of them): it throws on a visited entry that is null or
\* has no Position
MergeThrows(canvasData, pixelData) ==
  LET bad(i) == \/ canvasData[i].k \in {"null", "undefined"}
                \/ Prop(canvasData[i], "Position").k \in {"null", "undefined"}
  IN  \E i \in 1..Len(canvasData) :
         /\ bad(i)
         /\ Truthy(Prop(pixelData, "IsActive")) =>
              \A j \in 1..(i - 1) : bad(j) \/ ~SamePosition(canvasData[j], pixelData)

(***************************************************************************)
(* Chunking (sendChunkedCanvasData)                                         *)
(***************************************************************************)
\* deliberately wrong variant: chunking from the chunk size on, not above it
NeedsChunkingAtLimit(canvasData) ==
  canvasData.k = "array" /\ Len(canvasData.a) >= CHUNK_SIZE

\* canvasData.length > CONFIG.CHUNK_SIZE (length is undefined unless canvasData
\* is an array: the stored texts hold no string)
NeedsChunking(canvasData) == canvasData.k = "array" /\ Len(canvasData.a) > CHUNK_SIZE

\* deliberately wrong variant: Math.floor(n / CONFIG.CHUNK_SIZE) + 1
TotalChunksFloor(n) == n \div CHUNK_SIZE + 1

\* Math.ceil(n / CONFIG.CHUNK_SIZE)
TotalChunks(n) == (n + CHUNK_SIZE - 1) \div CHUNK_SIZE

\* canvasData.slice(start, end), 0-based and end-exclusive as in JavaScript
Slice(canvasData, start, end) ==
  SubSeq(canvasData, start + 1, IF end < Len(canvasData) THEN end ELSE Len(canvasData))

ChunkFrame(mapIdent, canvasData, i) ==
  Obj([Type |-> Str("canvas_data_chunk"),
       MapIdent |-> mapIdent,
       PixelData |-> Arr(Slice(canvasData, i * CHUNK_SIZE, i * CHUNK_SIZE + CHUNK_SIZE)),
       ChunkIndex |-> Num(i),
       TotalChunks |-> Num(TotalChunks(Len(canvasData))),
       IsLastChunk |-> Bool(i = TotalChunks(Len(canvasData)) - 1)])

(***************************************************************************)
(* Outbound frames                                                          *)
(***************************************************************************)
\* sendError's frame
ErrorFrame(message) == Obj([Type |-> Str("error"), Message |-> Str(message)])

CanvasDataFrame(mapIdent, canvasData) ==
  Obj([Type |-> Str("canvas_data"), MapIdent |-> mapIdent, PixelData |-> canvasData])

PixelUpdateAck(mapIdent, pixelData) ==
  Obj([Type |-> Str("pixel_update_ack"), MapIdent |-> mapIdent, SinglePixel |-> pixelData])

\* pixelData.length of an array
SaveCanvasAck(mapIdent, pixelData) ==
  Obj([Type |-> Str("save_canvas_ack"), MapIdent |-> mapIdent,
       pixelCount |-> Num(Len(pixelData.a))])

\* deliberately wrong variant: one key for every map
KeyShared(mapIdent) == <<"canvas:">>

\* `canvas:${mapIdent}`
Key(mapIdent) == <<"canvas:">> \o mapIdent.s

(***************************************************************************)
(* The synchronous part of a handler: from the message event to the first  *)
(* await of a store call, or to the handler's end.  Its outcome says where  *)
(* the handler stands (pc), which handler was dispatched (op), the frame    *)
(* it sent if any (reply), what it keeps in its locals and the text of the  *)
(* put it issued.                                                           *)
(***************************************************************************)
Outcome(pc, op, reply, mapIdent, pixelData, put) ==
  [pc |-> pc, op |-> op, reply |-> reply, mapIdent |-> mapIdent,
   pixelData |-> pixelData, put |-> put]

Answered(op, frame) == Outcome("done", op, <<frame>>, Undefined, Undefined, NotJSON)

\* deliberately wrong variant: the binding taken to be there
StorageAssumed(e) == TRUE

\* the negation of `!env || !env.CANVAS_STORAGE`
StorageAvailable(e) == e

\* deliberately wrong variant: only the first element is validated
FirstInvalid(pixelData) ==
  Len(pixelData.a) > 0 /\ ~validatePixelData(pixelData.a[1])

\* the loop over the elements of save_canvas's array: some element fails
AnyInvalid(pixelData) ==
  \E i \in 1..Len(pixelData.a) : ~validatePixelData(pixelData.a[i])

\* deliberately wrong variant: a request stores an empty canvas for its map
handleRequestCanvasDataStoring(message, env) ==
  LET mapIdent == Prop(message, "MapIdent")
  IN  IF ~validateMapId(mapIdent)
      THEN Answered("request_canvas_data", ErrorFrame("Invalid map ID format"))
      ELSE Outcome("put", "request_canvas_data", <<>>, mapIdent, Arr(<<>>),
                   JSONstringify(Arr(<<>>)))

handleRequestCanvasData(message, env) ==
  LET mapIdent == Prop(message, "MapIdent")
  IN  IF ~validateMapId(mapIdent)
      THEN Answered("request_canvas_data", ErrorFrame("Invalid map ID format"))
      ELSE IF ~StorageAvailable(env)
      THEN Outcome("done", "request_canvas_data",
                   <<CanvasDataFrame(mapIdent, Arr(<<>>))>>, mapIdent, Undefined, NotJSON)
      ELSE Outcome("get", "request_canvas_data", <<>>, mapIdent, Undefined, NotJSON)

handlePixelUpdate(message, env) ==
  LET mapIdent == Prop(message, "MapIdent")
      pixelData == Prop(message, "SinglePixel")
  IN  IF ~validateMapId(mapIdent)
      THEN Answered("pixel_update", ErrorFrame("Invalid map ID format"))
      ELSE IF ~validatePixelData(pixelData)
      THEN Answered("pixel_update", ErrorFrame("Invalid pixel data format"))
      ELSE IF ~StorageAvailable(env)
      THEN Outcome("done", "pixel_update", <<PixelUpdateAck(mapIdent, pixelData)>>,
                   mapIdent, pixelData, NotJSON)
      ELSE Outcome("get", "pixel_update", <<>>, mapIdent, pixelData, NotJSON)

handleSaveCanvas(message, env) ==
  LET mapIdent == Prop(message, "MapIdent")
      pixelData == Prop(message, "PixelData")
  IN  IF ~validateMapId(mapIdent)
      THEN Answered("save_canvas", ErrorFrame("Invalid map ID format"))
      ELSE IF pixelData.k # "array"
      THEN Answered("save_canvas", ErrorFrame("Pixel data must be an array"))
      ELSE IF AnyInvalid(pixelData)
      THEN Answered("save_canvas", ErrorFrame("Invalid pixel data in array"))
      ELSE IF ~StorageAvailable(env)
      THEN Outcome("done", "save_canvas", <<SaveCanvasAck(mapIdent, pixelData)>>,
                   mapIdent, pixelData, NotJSON)
      ELSE Outcome("put", "save_canvas", <<>>, mapIdent, pixelData,
                   JSONstringify(pixelData))

\* deliberately wrong variant: the ceiling itself is refused
TooLargeAtLimit(data) == data.length >= MAX_MESSAGE_SIZE

\* data.length > CONFIG.MAX_MESSAGE_SIZE
TooLarge(data) == data.length > MAX_MESSAGE_SIZE

\* deliberately wrong variant: the type is not named
UnknownTypeUnnamed(Type) == "Unknown message type"

\* `Unknown message type: ${message.Type}`
UnknownType(Type) == "Unknown message type: " \o Type.s

\* deliberately wrong variant: the exception is dropped without a reply
DroppedBySession == Outcome("done", "none", <<>>, Undefined, Undefined, NotJSON)

\* the catch of handleSession for what escapes handleWebSocketMessage
CaughtBySession == Answered("none", ErrorFrame("Internal server error"))

\* handleWebSocketMessage, and the catch of handleSession for what escapes it
\* (message.Type of a parsed null throws a TypeError)
handleWebSocketMessage(data, env) ==
  IF TooLarge(data)
  THEN Answered("none", ErrorFrame("Message too large"))
  ELSE IF JSONparseThrows(data.text)
  THEN Answered("none", ErrorFrame("Invalid JSON format"))
  ELSE LET message == JSONparse(data.text)
           Type == Prop(message, "Type")
       IN  IF message.k = "null"
           THEN CaughtBySession
           ELSE IF ~Truthy(Type) \/ TypeOf(Type) # "string"
           THEN Answered("none", ErrorFrame("Missing or invalid message type"))
           ELSE CASE Type.s = "request_canvas_data" -> handleRequestCanvasData(message, env)
                  [] Type.s = "pixel_update" -> handlePixelUpdate(message, env)
                  [] Type.s = "save_canvas" -> handleSaveCanvas(message, env)
                  [] OTHER -> Answered("none", ErrorFrame(UnknownType(Type)))

\* the message of the catch block of each handler
StorageFailure(op) ==
  CASE op = "request_canvas_data" -> "Failed to load canvas data"
    [] op = "pixel_update" -> "Failed to update pixel"
    [] OTHER -> "Failed to save canvas"

(***************************************************************************)
(* The clients' frames.  A frame is its length (data.length) and its text.  *)
(***************************************************************************)
Frame(length, json) == [length |-> length, text |-> [ok |-> TRUE, json |-> json]]
BadFrame(length) == [length |-> length, text |-> NotJSON]

Pixel(x, y, r, active) ==
  Obj([Position |-> Obj([x |-> x, y |-> y]),
       Color |-> Obj([r |-> Num(r), g |-> Num(0), b |-> Num(0), a |-> Num(1)]),
       PlacedBy |-> Str("test_user"),
       IsActive |-> Bool(active)])

RequestMsg(m) == Obj([Type |-> Str("request_canvas_data"), MapIdent |-> m])
UpdateMsg(m, p) == Obj([Type |-> Str("pixel_update"), MapIdent |-> m, SinglePixel |-> p])
SaveMsg(m, ps) == Obj([Type |-> Str("save_canvas"), MapIdent |-> m, PixelData |-> Arr(ps)])

M1 == Str(<<"m", "1">>)
M2 == Str(<<"m", "2">>)
\* two payloads (red, black) at (0,0), one at (1,0), and their deletions
A0 == Pixel(Num(0), Num(0), 1, TRUE)
B0 == Pixel(Num(0), Num(0), 0, TRUE)
A1 == Pixel(Num(1), Num(0), 1, TRUE)
B1 == Pixel(Num(1), Num(0), 0, TRUE)
D0 == Pixel(Num(0), Num(0), 1, FALSE)
D1 == Pixel(Num(1), Num(0), 1, FALSE)
\* x written as 1e999
AInf == Pixel(Infinity, Num(0), 1, TRUE)
BInf == Pixel(Infinity, Num(0), 0, TRUE)
\* n pixels at (1,0) .. (n,0)
Big(n) == [i \in 1..n |-> Pixel(Num(i), Num(0), 1, TRUE)]

\* an object with field f set to v, and with field f left out
With(p, f, v) == Obj([g \in DOMAIN p.o \cup {f} |-> IF g = f THEN v ELSE p.o[g]])
Without(p, f) == Obj([g \in DOMAIN p.o \ {f} |-> p.o[g]])

\* a pixel whose PlacedBy is the empty string
EmptyPlacedBy == With(A1, "PlacedBy", Str(""))

\* pixels with a field missing or of the wrong type, and values that are no pixel
Malformed ==
  { Without(A1, "Position"), With(A1, "Position", Null),
    With(A1, "Position", Obj([x |-> Num(1)])),
    With(A1, "Position", Obj([x |-> Str("1"), y |-> Num(0)])),
    Without(A1, "Color"),
    With(A1, "Color", Obj([r |-> Num(1), g |-> Num(0), b |-> Num(0)])),
    With(A1, "Color", Obj([r |-> Num(1), g |-> Num(0), b |-> Null, a |-> Num(1)])),
    Without(A1, "PlacedBy"), With(A1, "PlacedBy", Num(7)),
    Without(A1, "IsActive"), With(A1, "IsActive", Num(1)),
    With(A1, "IsActive", Str("true")),
    Null, Str("pixel"), Num(0), Arr(<<>>) }

\* a string of n characters a
Long(n) == Str([i \in 1..n |-> "a"])

\* identifiers of every allowed kind of character, of length 1 and 100
GoodMapIds == { M1, Long(1), Long(100), Str(<<"A", "Z", "0", "9", ".", "_", "-">>) }

\* the empty string, 101 characters, other characters, and values that are no string
BadMapIds ==
  { Str(<<>>), Long(101), Str(<<"m", "/">>), Str(<<"m", " ", "1">>), Str(<<":">>),
    Str(<<"m", "\n">>), Num(1), Num(0), Null, Bool(TRUE), Arr(<<M1>>),
    Obj([s |-> M1]) }

\* the frames of the test client (runTests), which names the map in MapId
TEST_MAP_ID == Str(<<"t", "e", "s", "t", "_", "m", "a", "p", "_", "1">>)
TestPixel == With(A0, "PlacedAt", Str("2025-08-10T12:00:00Z"))
TestFrames ==
  { Frame(64, Obj([Type |-> Str("request_canvas_data"), MapId |-> TEST_MAP_ID])),
    Frame(64, Obj([Type |-> Str("pixel_update"), MapId |-> TEST_MAP_ID,
                   SinglePixel |-> TestPixel])),
    Frame(64, Obj([Type |-> Str("save_canvas"), MapId |-> TEST_MAP_ID,
                   PixelData |-> Arr(<<TestPixel>>)])) }

\* the pixel sequence a stored text holds (a text that is no JSON array: none)
PixelsOf(text) ==
  IF text.ok /\ JSONparse(text).k = "array" THEN JSONparse(text).a ELSE <<>>

\* what the store holds once save_canvas has written pixels under mapIdent
Stored(mapIdent, pixels) ==
  [key \in {Key(mapIdent)} |-> JSONstringify(Arr(pixels))]

Conns == {"c1", "c2"}

\* the frames in flight at any time, over all connections
MaxFrames == 2

(***************************************************************************)
(* A run is one deployment (storage binding present or not), the canvases  *)
(* earlier sessions left in the store, and the frames its clients send.     *)
(***************************************************************************)
Runs ==
  { [name |-> <<"merge">>, env |-> TRUE, conns |-> Conns, store |-> <<>>,
     pool |-> { Frame(64, UpdateMsg(M1, A0)), Frame(64, UpdateMsg(M1, B0)),
                Frame(64, UpdateMsg(M1, A1)), Frame(64, UpdateMsg(M1, D0)),
                Frame(64, RequestMsg(M1)) }],
    [name |-> <<"merge on a canvas">>, env |-> TRUE, conns |-> Conns,
     store |-> Stored(M1, <<A0, A1>>),
     pool |-> { Frame(64, UpdateMsg(M1, B0)), Frame(64, UpdateMsg(M1, D0)),
                Frame(64, UpdateMsg(M1, D1)), Frame(64, SaveMsg(M1, <<>>)),
                Frame(64, RequestMsg(M1)) }],
    [name |-> <<"save">>, env |-> TRUE, conns |-> {"c1"}, store |-> <<>>,
     pool |-> { Frame(64, SaveMsg(M1, <<A0, A1>>)), Frame(64, SaveMsg(M1, <<A0, A1, B0>>)),
                Frame(64, SaveMsg(M1, <<D1>>)),
                Frame(64, UpdateMsg(M1, B0)), Frame(64, UpdateMsg(M1, D0)),
                Frame(64, RequestMsg(M1)) }],
    [name |-> <<"non-finite">>, env |-> TRUE, conns |-> {"c1"}, store |-> <<>>,
     pool |-> { Frame(64, UpdateMsg(M1, AInf)), Frame(64, UpdateMsg(M1, BInf)),
                Frame(64, SaveMsg(M1, <<AInf>>)), Frame(64, RequestMsg(M1)) }],
    [name |-> <<"two maps">>, env |-> TRUE, conns |-> {"c1"}, store |-> Stored(M2, <<B1>>),
     pool |-> { Frame(64, UpdateMsg(M1, A0)), Frame(64, UpdateMsg(M2, B0)),
                Frame(64, SaveMsg(M1, <<A1>>)), Frame(64, RequestMsg(M1)),
                Frame(64, RequestMsg(M2)) }],
    [name |-> <<"router">>, env |-> TRUE, conns |-> {"c1"}, store |-> Stored(M1, <<A0>>),
     pool |-> { Frame(1000001, UpdateMsg(M1, A1)), Frame(1000001, RequestMsg(M1)),
                BadFrame(1000001), BadFrame(64), BadFrame(1000000),
                Frame(1000000, UpdateMsg(M1, A1)), Frame(64, RequestMsg(M1)),
                Frame(64, Obj([Type |-> Str("bogus")])) }],
    [name |-> <<"degraded">>, env |-> FALSE, conns |-> {"c1"}, store |-> <<>>,
     pool |-> { Frame(64, UpdateMsg(M1, A0)), Frame(64, SaveMsg(M1, <<A0, A1>>)),
                Frame(64, RequestMsg(M1)), BadFrame(64),
                Frame(64, RequestMsg(Long(101))), Frame(64, UpdateMsg(Null, A0)),
                Frame(64, UpdateMsg(M1, Without(A1, "Color"))),
                Frame(64, SaveMsg(M1, <<A0, Null>>)),
                Frame(64, Obj([Type |-> Str("save_canvas"), MapIdent |-> M1,
                               PixelData |-> A0])) }],
    [name |-> <<"structure">>, env |-> TRUE, conns |-> {"c1"}, store |-> Stored(M1, <<A0>>),
     pool |-> { Frame(4, Null), Frame(1, Num(5)), Frame(4, Bool(TRUE)),
                Frame(6, Str("text")), Frame(2, Arr(<<>>)), Frame(2, Obj(<<>>)),
                Frame(64, Obj([MapIdent |-> M1])),
                Frame(64, Obj([Type |-> Str(""), MapIdent |-> M1])),
                Frame(64, Obj([Type |-> Num(1), MapIdent |-> M1])),
                Frame(64, Obj([Type |-> Null, MapIdent |-> M1])),
                Frame(64, Obj([Type |-> Arr(<<Str("pixel_update")>>)])),
                Frame(64, Obj([Type |-> Str("Pixel_Update"), MapIdent |-> M1])),
                Frame(64, RequestMsg(M1)), Frame(64, UpdateMsg(M1, A1)) }],
    [name |-> <<"validation">>, env |-> TRUE, conns |-> {"c1"}, store |-> Stored(M1, <<A0>>),
     pool |-> { Frame(64, SaveMsg(M1, <<A1, Without(A1, "Color")>>)),
                Frame(64, SaveMsg(M1, <<Null, A1>>)),
                Frame(64, SaveMsg(M1, <<A1, B0, With(A1, "IsActive", Num(1))>>)),
                Frame(64, SaveMsg(Str(<<"m", "/">>), <<A1>>)),
                Frame(64, Obj([Type |-> Str("save_canvas"), MapIdent |-> M1,
                               PixelData |-> A1])),
                Frame(64, Obj([Type |-> Str("save_canvas"), MapIdent |-> M1])),
                Frame(64, Obj([Type |-> Str("pixel_update"), MapIdent |-> M1])),
                Frame(64, UpdateMsg(Long(101), A1)),
                Frame(64, Obj([Type |-> Str("request_canvas_data")])),
                Frame(64, SaveMsg(M1, <<A1>>)), Frame(64, RequestMsg(M1)) }],
    [name |-> <<"pixels">>, env |-> TRUE, conns |-> {"c1"}, store |-> <<>>,
     pool |-> { Frame(64, UpdateMsg(M1, p)) : p \in Malformed \cup {A1, EmptyPlacedBy} }],
    [name |-> <<"map ids">>, env |-> TRUE, conns |-> {"c1"}, store |-> <<>>,
     pool |-> { Frame(64, RequestMsg(m)) : m \in GoodMapIds \cup BadMapIds }
              \cup { Frame(64, UpdateMsg(m, A0)) : m \in {Long(100), Long(101)} }
              \cup { Frame(64, SaveMsg(m, <<A0>>)) : m \in {Long(1), Str(<<>>)} }],
    [name |-> <<"test client">>, env |-> TRUE, conns |-> {"c1"}, store |-> <<>>,
     pool |-> TestFrames],
    [name |-> <<"failing store">>, env |-> TRUE, conns |-> {"c1"},
     store |-> Stored(M1, <<A0>>),
     pool |-> { Frame(64, RequestMsg(M1)), Frame(64, UpdateMsg(M1, A1)),
                Frame(64, SaveMsg(M1, <<A1>>)) }],
    \* values under the keys that the worker did not write: text that is no
    \* JSON, and the JSON text null
    [name |-> <<"undecodable">>, env |-> TRUE, conns |-> {"c1"},
     store |-> [key \in {Key(M1), Key(M2)} |->
                  IF key = Key(M1) THEN NotJSON ELSE JSONstringify(Null)],
     pool |-> { Frame(64, RequestMsg(M1)), Frame(64, UpdateMsg(M1, A0)),
                Frame(64, RequestMsg(M2)), Frame(64, UpdateMsg(M2, D0)),
                Frame(64, SaveMsg(M1, <<A1>>)) }] }
  \cup
  { [name |-> <<"chunk", n>>, env |-> TRUE, conns |-> {"c1"},
     store |-> Stored(M1, Big(n)),
     pool |-> { Frame(64, RequestMsg(M1)), Frame(64, UpdateMsg(M1, D1)),
                Frame(64, Obj([Type |-> Str("bogus")])) }]
    : n \in {50, 100, 101, 200, 250} }

RunOf(name) == CHOOSE r \in Runs : r.name = name

VARIABLES
  run,     \* the name of the run
  env,     \* whether env.CANVAS_STORAGE is bound
  store,   \* CANVAS_STORAGE: key -> JSON text, for the keys that hold a value
  tasks,   \* one handler per inbound frame, in arrival order
  sent     \* per connection, the frames sent on it, each with the handler that sent it

vars == <<run, env, store, tasks, sent>>

Init ==
  \E r \in Runs :
    /\ run = r.name
    /\ env = r.env
    /\ store = r.store
    /\ tasks = <<>>
    /\ sent = [c \in Conns |-> <<>>]

\* websocket.send(JSON.stringify(frame)) by handler t on connection c
Send(c, t, frame) ==
  sent' = [sent EXCEPT ![c] = Append(@, [by |-> t, text |-> JSONstringify(frame)])]

Running(task) == task.pc # "done"

\* deliberately wrong variant: the server takes a frame only when no handler
\* of any connection is in progress
ReceiveOneAtATime(c, data) ==
  /\ Len(tasks) < MaxFrames
  /\ \A u \in 1..Len(tasks) : ~Running(tasks[u])
  /\ LET r == handleWebSocketMessage(data, env)
         t == Len(tasks) + 1
     IN  /\ tasks' = Append(tasks,
                [conn |-> c, data |-> data, pc |-> r.pc, op |-> r.op,
                 mapIdent |-> r.mapIdent, pixelData |-> r.pixelData,
                 canvasData |-> Undefined, put |-> r.put, i |-> 0,
                 gets |-> IF r.pc = "get" THEN 1 ELSE 0,
                 puts |-> IF r.pc = "put" THEN 1 ELSE 0,
                 failed |-> FALSE, error |-> "", alone |-> TRUE])
         /\ IF r.reply = <<>> THEN UNCHANGED sent ELSE Send(c, t, r.reply[1])
  /\ UNCHANGED <<run, env, store>>

\* deliberately wrong variant: the message event waits for the connection's
\* earlier handlers to end
ReceiveSerialized(c, data) ==
  /\ Len(tasks) < MaxFrames
  /\ \A u \in 1..Len(tasks) : tasks[u].conn = c => ~Running(tasks[u])
  /\ LET r == handleWebSocketMessage(data, env)
         t == Len(tasks) + 1
         quiet == \A u \in 1..Len(tasks) : ~Running(tasks[u])
     IN  /\ tasks' = Append(
                [u \in 1..Len(tasks) |->
                   IF Running(tasks[u]) THEN [tasks[u] EXCEPT !.alone = FALSE]
                                        ELSE tasks[u]],
                [conn |-> c, data |-> data, pc |-> r.pc, op |-> r.op,
                 mapIdent |-> r.mapIdent, pixelData |-> r.pixelData,
                 canvasData |-> Undefined, put |-> r.put, i |-> 0,
                 gets |-> IF r.pc = "get" THEN 1 ELSE 0,
                 puts |-> IF r.pc = "put" THEN 1 ELSE 0,
                 failed |-> FALSE, error |-> "", alone |-> quiet])
         /\ IF r.reply = <<>> THEN UNCHANGED sent ELSE Send(c, t, r.reply[1])
  /\ UNCHANGED <<run, env, store>>

(***************************************************************************)
(* The message event of connection c: the handler of frame data starts and  *)
(* runs to its first store call or to its end.                              *)
(***************************************************************************)
Receive(c, data) ==
  /\ Len(tasks) < MaxFrames
  /\ LET r == handleWebSocketMessage(data, env)
         t == Len(tasks) + 1
         quiet == \A u \in 1..Len(tasks) : ~Running(tasks[u])
     IN  /\ tasks' = Append(
                [u \in 1..Len(tasks) |->
                   IF Running(tasks[u]) THEN [tasks[u] EXCEPT !.alone = FALSE]
                                        ELSE tasks[u]],
                [conn |-> c, data |-> data, pc |-> r.pc, op |-> r.op,
                 mapIdent |-> r.mapIdent, pixelData |-> r.pixelData,
                 canvasData |-> Undefined, put |-> r.put, i |-> 0,
                 gets |-> IF r.pc = "get" THEN 1 ELSE 0,
                 puts |-> IF r.pc = "put" THEN 1 ELSE 0,
                 failed |-> FALSE, error |-> "", alone |-> quiet])
         /\ IF r.reply = <<>> THEN UNCHANGED sent ELSE Send(c, t, r.reply[1])
  /\ UNCHANGED <<run, env, store>>

\* what a rejected store call says went wrong: one text in most runs, a
\* choice of texts in the run that compares them
StoreErrors == {"KV request failed: 503", "KV request failed: 429 quota exceeded"}
StoreErrorsIn(name) ==
  IF name = <<"failing store">> THEN StoreErrors ELSE {"KV request failed: 503"}

\* deliberately wrong variant: the exception's text is sent along
FailTelling(t, error) ==
  /\ tasks' = [tasks EXCEPT ![t].pc = "done", ![t].failed = TRUE, ![t].error = error]
  /\ Send(tasks[t].conn, t, ErrorFrame(StorageFailure(tasks[t].op) \o ": " \o error))

\* the handler's catch block: console.error with the exception (kept in error),
\* then sendError with the operation's storage-failure message
Fail(t, error) ==
  /\ tasks' = [tasks EXCEPT ![t].pc = "done", ![t].failed = TRUE, ![t].error = error]
  /\ Send(tasks[t].conn, t, ErrorFrame(StorageFailure(tasks[t].op)))

\* await env.CANVAS_STORAGE.get(key) resolves, and the handler runs on to its
\* next await or to its end
StoreGetResolves(t) ==
  /\ tasks[t].pc = "get"
  /\ LET task == tasks[t]
         key == Key(task.mapIdent)
         absent == key \notin DOMAIN store
         \* canvasDataJson ? JSON.parse(canvasDataJson) : []
         canvasData == IF absent THEN Arr(<<>>) ELSE JSONparse(store[key])
     IN  IF ~absent /\ JSONparseThrows(store[key])
         THEN Fail(t, "SyntaxError: Unexpected token")
         ELSE IF task.op = "request_canvas_data"
         THEN IF canvasData.k = "null"
              THEN Fail(t, "TypeError: Cannot read properties of null")
              ELSE IF NeedsChunking(canvasData)
              THEN \* sendChunkedCanvasData: the first chunk, then the timer
                   /\ tasks' = [tasks EXCEPT
                         ![t].pc = IF 0 < TotalChunks(Len(canvasData.a)) - 1
                                   THEN "delay" ELSE "done",
                         ![t].canvasData = canvasData,
                         ![t].i = 0]
                   /\ Send(task.conn, t, ChunkFrame(task.mapIdent, canvasData.a, 0))
              ELSE /\ tasks' = [tasks EXCEPT ![t].pc = "done",
                                             ![t].canvasData = canvasData]
                   /\ Send(task.conn, t, CanvasDataFrame(task.mapIdent, canvasData))
         ELSE IF canvasData.k # "array" \/ MergeThrows(canvasData.a, task.pixelData)
              THEN Fail(t, "TypeError: canvasData.findIndex is not a function")
              ELSE /\ tasks' = [tasks EXCEPT
                        ![t].pc = "put",
                        ![t].puts = 1,
                        ![t].canvasData = canvasData,
                        ![t].put = JSONstringify(Arr(ApplyUpdate(canvasData.a,
                                                                 task.pixelData)))]
                   /\ UNCHANGED sent
  /\ UNCHANGED <<run, env, store>>

\* deliberately wrong variant: the rejection ends the handler without a frame
StoreGetRejectsSilently(t) ==
  /\ tasks[t].pc = "get"
  /\ tasks' = [tasks EXCEPT ![t].pc = "done", ![t].failed = TRUE]
  /\ UNCHANGED <<run, env, store, sent>>

\* the get rejects
StoreGetRejects(t) ==
  /\ tasks[t].pc = "get"
  /\ \E error \in StoreErrorsIn(run) : Fail(t, error)
  /\ UNCHANGED <<run, env, store>>

\* store.put(key, text)
Put(key, text) ==
  store' = [k \in DOMAIN store \cup {key} |-> IF k = key THEN text ELSE store[k]]

\* deliberately wrong variant: a put that merges the update into the canvas stored now, instead of
\* writing the canvas the handler computed from what it loaded
StorePutResolvesMerged(t) ==
  /\ tasks[t].pc = "put"
  /\ LET task == tasks[t]
         key == Key(task.mapIdent)
         now == IF key \in DOMAIN store THEN PixelsOf(store[key]) ELSE <<>>
     IN  /\ store' = [k \in DOMAIN store \cup {key} |->
                        IF k # key THEN store[k]
                        ELSE IF task.op = "pixel_update"
                             THEN JSONstringify(Arr(ApplyUpdate(now, task.pixelData)))
                             ELSE task.put]
         /\ tasks' = [tasks EXCEPT ![t].pc = "done"]
         /\ sent' = [sent EXCEPT ![task.conn] = Append(@,
                       [by |-> t,
                        text |-> JSONstringify(
                           IF task.op = "pixel_update"
                           THEN PixelUpdateAck(task.mapIdent, task.pixelData)
                           ELSE SaveCanvasAck(task.mapIdent, task.pixelData))])]
  /\ UNCHANGED <<run, env>>

\* await env.CANVAS_STORAGE.put(key, text) resolves: the value is stored and
\* the handler sends its acknowledgement
StorePutResolves(t) ==
  /\ tasks[t].pc = "put"
  /\ LET task == tasks[t]
     IN  /\ Put(Key(task.mapIdent), task.put)
         /\ tasks' = [tasks EXCEPT ![t].pc = "done"]
         /\ Send(task.conn, t,
                 IF task.op = "pixel_update"
                 THEN PixelUpdateAck(task.mapIdent, task.pixelData)
                 ELSE SaveCanvasAck(task.mapIdent, task.pixelData))
  /\ UNCHANGED <<run, env>>

\* deliberately wrong variant: the put rejects after it has stored the value
StorePutRejectsAfterWrite(t) ==
  /\ tasks[t].pc = "put"
  /\ Put(Key(tasks[t].mapIdent), tasks[t].put)
  /\ tasks' = [tasks EXCEPT ![t].pc = "done", ![t].failed = TRUE]
  /\ Send(tasks[t].conn, t, ErrorFrame(StorageFailure(tasks[t].op)))
  /\ UNCHANGED <<run, env>>

\* the put rejects and stores nothing
StorePutRejects(t) ==
  /\ tasks[t].pc = "put"
  /\ \E error \in StoreErrorsIn(run) : Fail(t, error)
  /\ UNCHANGED <<run, env, store>>

\* deliberately wrong variant: each chunk is cut from the canvas stored when it is sent
ChunkDelayElapsesRereading(t) ==
  /\ tasks[t].pc = "delay"
  /\ LET task == tasks[t]
         i == task.i + 1
         key == Key(task.mapIdent)
         now == IF key \in DOMAIN store THEN PixelsOf(store[key]) ELSE <<>>
     IN  /\ tasks' = [tasks EXCEPT
               ![t].i = i,
               ![t].pc = IF i < TotalChunks(Len(now)) - 1 THEN "delay" ELSE "done"]
         /\ Send(task.conn, t, ChunkFrame(task.mapIdent, now, i))
  /\ UNCHANGED <<run, env, store>>

\* the timer between two chunks fires: the next chunk is sent
ChunkDelayElapses(t) ==
  /\ tasks[t].pc = "delay"
  /\ LET task == tasks[t]
         i == task.i + 1
     IN  /\ tasks' = [tasks EXCEPT
               ![t].i = i,
               ![t].pc = IF i < TotalChunks(Len(task.canvasData.a)) - 1
                         THEN "delay" ELSE "done"]
         /\ Send(task.conn, t, ChunkFrame(task.mapIdent, task.canvasData.a, i))
  /\ UNCHANGED <<run, env, store>>

Next ==
  \/ \E c \in RunOf(run).conns : \E data \in RunOf(run).pool : Receive(c, data)
  \/ \E t \in 1..Len(tasks) : StoreGetResolves(t)
  \/ \E t \in 1..Len(tasks) : StoreGetRejects(t)
  \/ \E t \in 1..Len(tasks) : StorePutResolves(t)
  \/ \E t \in 1..Len(tasks) : StorePutRejects(t)
  \/ \E t \in 1..Len(tasks) : ChunkDelayElapses(t)

Spec == Init /\ [][Next]_vars

\* the continuation of handler t: its pending store call settles (resolves or
\* rejects) or its chunk timer fires
Step(t) ==
  /\ t \in 1..Len(tasks)
  /\ \/ StoreGetRejects(t)
     \/ StorePutRejects(t)
     \/ StoreGetResolves(t)
     \/ StorePutResolves(t)
     \/ ChunkDelayElapses(t)

\* every store call settles and every timer fires
FairSpec == Init /\ [][Next]_vars /\ \A t \in 1..MaxFrames : WF_vars(Step(t))

\* the same, but the first handler's store call may stay pending forever
StalledSpec == Init /\ [][Next]_vars /\ \A t \in 2..MaxFrames : WF_vars(Step(t))

(***************************************************************************)
(* Observations used by the properties below                                *)
(***************************************************************************)
\* the pixel sequence persisted under canvas:<mapIdent> (none stored: empty)
CanvasOf(mapIdent) ==
  IF Key(mapIdent) \in DOMAIN store THEN PixelsOf(store[Key(mapIdent)]) ELSE <<>>

\* the frames handler t has sent, in the order sent, as the client parses them
SentBy(t) ==
  LET mine == SelectSeq(sent[tasks[t].conn], LAMBDA e : e.by = t)
  IN  [n \in 1..Len(mine) |-> JSONparse(mine[n].text)]

\* the message a frame carries when it parses to an object, else Undefined
MessageOf(data) == IF data.text.ok THEN JSONparse(data.text) ELSE Undefined

\* handler t ran pixel_update / save_canvas to its acknowledgement
Acked(t) ==
  /\ tasks[t].op \in {"pixel_update", "save_canvas"}
  /\ tasks[t].pc = "done"
  /\ tasks[t].puts = 1
  /\ ~tasks[t].failed

IsUpdate(t, active) ==
  /\ tasks[t].op = "pixel_update"
  /\ tasks[t].pixelData.k = "object"
  /\ Prop(tasks[t].pixelData, "IsActive") = Bool(active)

\* the entries of a pixel sequence at the position of pixel
EntriesAt(canvas, pixel) == {n \in 1..Len(canvas) : SamePosition(canvas[n], pixel)}

\* no handler that arrived after t has issued a put
NoLaterPut(t) == \A u \in (t + 1)..Len(tasks) : tasks[u].puts = 0

(***************************************************************************)
(* C1.  In every reachable state every persisted canvas holds at most one   *)
(* pixel per Position.  The code does not keep this: save_canvas stores     *)
(* the submitted array as it is.                                            *)
(***************************************************************************)
OnePixelPerPosition ==
  \A key \in DOMAIN store :
     LET canvas == PixelsOf(store[key])
     IN  \A n, o \in 1..Len(canvas) :
            n # o => ~SamePosition(canvas[n], canvas[o])

(***************************************************************************)
(* C2.  Lost update.  Two acknowledged active pixel_updates for different   *)
(* Positions of one map that both loaded the same canvas (each get          *)
(* resolved before the other's put), with no other writer on the map: the   *)
(* stored canvas is the loaded one plus one of the two pixels, never both.  *)
(* Nothing in the handlers makes the second put wait for, or see, the       *)
(* first.                                                                   *)
(***************************************************************************)
BothLoadedTheSame(t, u) ==
  /\ t # u
  /\ Acked(t) /\ Acked(u)
  /\ IsUpdate(t, TRUE) /\ IsUpdate(u, TRUE)
  /\ tasks[t].mapIdent = tasks[u].mapIdent
  /\ ~SamePosition(tasks[t].pixelData, tasks[u].pixelData)
  /\ tasks[t].canvasData = tasks[u].canvasData
  /\ EntriesAt(tasks[t].canvasData.a, tasks[t].pixelData) = {}
  /\ EntriesAt(tasks[t].canvasData.a, tasks[u].pixelData) = {}
  /\ \A w \in 1..Len(tasks) : w \notin {t, u} => tasks[w].puts = 0

LostUpdateUnprevented ==
  \A t, u \in 1..Len(tasks) :
     BothLoadedTheSame(t, u) =>
        LET canvas == CanvasOf(tasks[t].mapIdent)
        IN  /\ Len(canvas) = Len(tasks[t].canvasData.a) + 1
            /\ \/ canvas = Append(tasks[t].canvasData.a, tasks[t].pixelData)
               \/ canvas = Append(tasks[t].canvasData.a, tasks[u].pixelData)

\* connection c1 sent A's update, c2 sent B's; both are acknowledged and the
\* stored canvas holds B's pixel but not A's
LostUpdateReached ==
  \E t, u \in 1..Len(tasks) :
     /\ BothLoadedTheSame(t, u)
     /\ tasks[t].conn = "c1" /\ tasks[u].conn = "c2"
     /\ SentBy(t) = <<PixelUpdateAck(tasks[t].mapIdent, tasks[t].pixelData)>>
     /\ SentBy(u) = <<PixelUpdateAck(tasks[u].mapIdent, tasks[u].pixelData)>>
     /\ EntriesAt(CanvasOf(tasks[t].mapIdent), tasks[u].pixelData) # {}
     /\ EntriesAt(CanvasOf(tasks[t].mapIdent), tasks[t].pixelData) = {}

(***************************************************************************)
(* C3.  Upsert: two active pixel_updates for one Position of one map, the   *)
(* second handled after the first was acknowledged and nothing else         *)
(* running, leave exactly one stored pixel at that Position, equal to the   *)
(* second frame's payload.  The code does not keep this for a Position      *)
(* whose coordinate is written beyond the double range.                     *)
(***************************************************************************)
OneAfterTheOther(t, u) ==
  /\ u = t + 1
  /\ tasks[t].alone /\ tasks[u].alone
  /\ tasks[t].mapIdent = tasks[u].mapIdent
  /\ NoLaterPut(u)

UpsertCorrect ==
  \A t, u \in 1..Len(tasks) :
     ( /\ OneAfterTheOther(t, u)
       /\ Acked(t) /\ Acked(u)
       /\ IsUpdate(t, TRUE) /\ IsUpdate(u, TRUE)
       /\ SamePosition(tasks[t].pixelData, tasks[u].pixelData) )
     => LET canvas == CanvasOf(tasks[u].mapIdent)
            \* the entries at the Position, as the frame gives it or as JSON writes it
            at == EntriesAt(canvas, tasks[u].pixelData)
                    \cup EntriesAt(canvas, ToJSON(tasks[u].pixelData))
        IN  /\ Cardinality(at) = 1
            /\ \A n \in at : canvas[n] = tasks[u].pixelData

(***************************************************************************)
(* C4.  Idempotent delete: a pixel_update with IsActive = false for a       *)
(* Position the loaded canvas has no entry at writes back the sequence it   *)
(* loaded and is answered with pixel_update_ack (the store calls            *)
(* succeeding); with nothing else running the stored sequence is what it    *)
(* was, and the same delete applied twice writes what one delete wrote.     *)
(***************************************************************************)
DeletesAbsent(t) ==
  /\ IsUpdate(t, FALSE)
  /\ tasks[t].puts = 1
  /\ EntriesAt(tasks[t].canvasData.a, tasks[t].pixelData) = {}

IdempotentDelete ==
  /\ \A t \in 1..Len(tasks) :
        DeletesAbsent(t) =>
          /\ JSONparse(tasks[t].put) = tasks[t].canvasData
          /\ Acked(t) =>
               SentBy(t) = <<PixelUpdateAck(tasks[t].mapIdent, tasks[t].pixelData)>>
          /\ (Acked(t) /\ tasks[t].alone /\ NoLaterPut(t)) =>
               CanvasOf(tasks[t].mapIdent) = tasks[t].canvasData.a
  /\ \A t, u \in 1..Len(tasks) :
        ( /\ OneAfterTheOther(t, u)
          /\ Acked(t) /\ Acked(u)
          /\ IsUpdate(t, FALSE)
          /\ tasks[u].data = tasks[t].data )
        => /\ tasks[u].put = tasks[t].put
           /\ CanvasOf(tasks[u].mapIdent) = JSONparse(tasks[t].put).a

\* the same delete handled twice in a row on a canvas that keeps other pixels
DeletedTwice ==
  \E t, u \in 1..Len(tasks) :
     /\ OneAfterTheOther(t, u)
     /\ Acked(t) /\ Acked(u)
     /\ IsUpdate(t, FALSE)
     /\ tasks[u].data = tasks[t].data
     /\ DeletesAbsent(u)
     /\ Len(tasks[u].canvasData.a) > 0
     /\ SentBy(u) = <<PixelUpdateAck(tasks[u].mapIdent, tasks[u].pixelData)>>

(***************************************************************************)
(* C5.  Round trip: an acknowledged save_canvas of P followed, with         *)
(* nothing else running, by request_canvas_data returns a pixel collection  *)
(* equal to P as a set.  The code does not keep this for a pixel with a     *)
(* non-finite number, which JSON.stringify stores as null.                  *)
(***************************************************************************)
RECURSIVE Flatten(_)
Flatten(seqs) == IF seqs = <<>> THEN <<>> ELSE Head(seqs) \o Flatten(Tail(seqs))

\* the pixels of the canvas_data frame or of the chunks handler t sent
PixelsSentBy(t) ==
  Flatten([n \in 1..Len(SentBy(t)) |-> Prop(SentBy(t)[n], "PixelData").a])

Range(seq) == {seq[n] : n \in 1..Len(seq)}

Answered_request(t) ==
  /\ tasks[t].op = "request_canvas_data"
  /\ tasks[t].pc = "done"
  /\ tasks[t].gets = 1
  /\ ~tasks[t].failed

RoundTrip ==
  \A t, u \in 1..Len(tasks) :
     ( /\ OneAfterTheOther(t, u)
       /\ tasks[t].op = "save_canvas" /\ Acked(t)
       /\ Answered_request(u) )
     => Range(PixelsSentBy(u)) = Range(tasks[t].pixelData.a)

(***************************************************************************)
(* C6.  Chunk reconstruction: for a loaded sequence of N > CHUNK_SIZE       *)
(* pixels the chunks sent so far carry ChunkIndex 0, 1, 2, ... in that      *)
(* order, each TotalChunks = ceil(N / CHUNK_SIZE), IsLastChunk exactly on   *)
(* index TotalChunks - 1, and together the loaded sequence's prefix; the    *)
(* finished transfer has TotalChunks chunks and reproduces the sequence.    *)
(***************************************************************************)
\* ceil(n / d) by its definition: the least k with k * d >= n
CeilDiv(n, d) == CHOOSE k \in 0..n : k * d >= n /\ (k - 1) * d < n

Transfers(t) ==
  /\ tasks[t].op = "request_canvas_data"
  /\ tasks[t].pc \in {"delay", "done"}
  /\ tasks[t].gets = 1
  /\ ~tasks[t].failed
  /\ Len(tasks[t].canvasData.a) > CHUNK_SIZE

ChunkReconstruction ==
  \A t \in 1..Len(tasks) :
     Transfers(t) =>
       LET loaded == tasks[t].canvasData.a
           total == CeilDiv(Len(loaded), CHUNK_SIZE)
           chunks == SentBy(t)
       IN  /\ Len(chunks) >= 1 /\ Len(chunks) <= total
           /\ tasks[t].pc = "done" <=> Len(chunks) = total
           /\ \A n \in 1..Len(chunks) :
                 /\ Prop(chunks[n], "Type") = Str("canvas_data_chunk")
                 /\ Prop(chunks[n], "ChunkIndex") = Num(n - 1)
                 /\ Prop(chunks[n], "TotalChunks") = Num(total)
                 /\ Prop(chunks[n], "IsLastChunk") = Bool(n - 1 = total - 1)
           /\ PixelsSentBy(t) = SubSeq(loaded, 1, Len(PixelsSentBy(t)))
           /\ tasks[t].pc = "done" => PixelsSentBy(t) = loaded

\* a finished transfer of 200 pixels: two full chunks
TransferFinished ==
  \E t \in 1..Len(tasks) :
     /\ Transfers(t)
     /\ tasks[t].pc = "done"
     /\ Len(tasks[t].canvasData.a) = 2 * CHUNK_SIZE
     /\ Len(SentBy(t)) = 2

(***************************************************************************)
(* C7.  Response shape: a request that loaded N pixels answers with one     *)
(* canvas_data frame holding them all when N <= CHUNK_SIZE, and with        *)
(* canvas_data_chunk frames only when N > CHUNK_SIZE, each of CHUNK_SIZE    *)
(* pixels but the last, which holds the rest; with nothing else running     *)
(* the N pixels are the stored canvas.                                      *)
(***************************************************************************)
ResponseShape ==
  \A t \in 1..Len(tasks) :
     Answered_request(t) =>
       LET loaded == tasks[t].canvasData.a
           N == Len(loaded)
           total == CeilDiv(N, CHUNK_SIZE)
           frames == SentBy(t)
       IN  /\ (tasks[t].alone /\ NoLaterPut(t)) => loaded = CanvasOf(tasks[t].mapIdent)
           /\ IF N <= CHUNK_SIZE
              THEN frames = <<CanvasDataFrame(tasks[t].mapIdent, Arr(loaded))>>
              ELSE /\ Len(frames) = total
                   /\ \A n \in 1..Len(frames) :
                         /\ Prop(frames[n], "Type") = Str("canvas_data_chunk")
                         /\ Len(Prop(frames[n], "PixelData").a) =
                              IF n < total THEN CHUNK_SIZE
                                           ELSE N - CHUNK_SIZE * (total - 1)

\* exactly CHUNK_SIZE stored pixels answered in one unchunked frame
AnsweredUnchunkedAtLimit ==
  \E t \in 1..Len(tasks) :
     /\ Answered_request(t)
     /\ Len(CanvasOf(tasks[t].mapIdent)) = CHUNK_SIZE
     /\ Len(SentBy(t)) = 1
     /\ Prop(SentBy(t)[1], "Type") = Str("canvas_data")
     /\ Len(Prop(SentBy(t)[1], "PixelData").a) = CHUNK_SIZE

(***************************************************************************)
(* C8.  During a chunked transfer no other frame is sent on the connection  *)
(* between the transfer's first and last chunk, and its chunks go out in    *)
(* increasing ChunkIndex order.  The code does not keep the first part: a   *)
(* frame arriving while the transfer waits for its timer is answered at     *)
(* once.                                                                    *)
(***************************************************************************)
IsChunk(e) == Prop(JSONparse(e.text), "Type") = Str("canvas_data_chunk")

TransferUninterrupted ==
  \A c \in Conns :
     \A n, o \in 1..Len(sent[c]) :
        ( /\ n < o
          /\ IsChunk(sent[c][n]) /\ IsChunk(sent[c][o])
          /\ sent[c][n].by = sent[c][o].by )
        => /\ Prop(JSONparse(sent[c][n].text), "ChunkIndex").n
                < Prop(JSONparse(sent[c][o].text), "ChunkIndex").n
           /\ \A m \in n..o : sent[c][m].by = sent[c][n].by

(***************************************************************************)
(* C9.  Size check: a frame is answered with the size error exactly when    *)
(* its length exceeds MAX_MESSAGE_SIZE; an oversized frame gets that one    *)
(* error frame, no handler is dispatched for it and no store call is made,  *)
(* whatever its content.                                                    *)
(***************************************************************************)
SizeError == ErrorFrame("Message too large")

SizeCheck ==
  \A t \in 1..Len(tasks) :
     /\ (\E n \in 1..Len(SentBy(t)) : SentBy(t)[n] = SizeError)
          <=> tasks[t].data.length > MAX_MESSAGE_SIZE
     /\ tasks[t].data.length > MAX_MESSAGE_SIZE =>
          /\ SentBy(t) = <<SizeError>>
          /\ tasks[t].pc = "done"
          /\ tasks[t].op = "none"
          /\ tasks[t].gets = 0 /\ tasks[t].puts = 0

\* an oversized frame that holds a valid pixel_update is refused, the store is
\* as it was, and the next frame on the connection is answered with the canvas
OversizedRefused ==
  /\ Len(tasks) = 2
  /\ tasks[1].conn = tasks[2].conn
  /\ tasks[1].data.length > MAX_MESSAGE_SIZE
  /\ Prop(MessageOf(tasks[1].data), "Type") = Str("pixel_update")
  /\ SentBy(1) = <<SizeError>>
  /\ store = RunOf(run).store
  /\ Answered_request(2)
  /\ SentBy(2) = <<CanvasDataFrame(M1, Arr(CanvasOf(M1)))>>

(***************************************************************************)
(* C10.  A frame within the size ceiling that is not JSON is answered with  *)
(* exactly one format-error frame; no handler is dispatched and no store    *)
(* call is made.                                                            *)
(***************************************************************************)
FormatError == ErrorFrame("Invalid JSON format")

MalformedRejected ==
  \A t \in 1..Len(tasks) :
     (tasks[t].data.length <= MAX_MESSAGE_SIZE /\ ~tasks[t].data.text.ok) =>
        /\ SentBy(t) = <<FormatError>>
        /\ tasks[t].pc = "done"
        /\ tasks[t].op = "none"
        /\ tasks[t].gets = 0 /\ tasks[t].puts = 0

\* a malformed frame of exactly MAX_MESSAGE_SIZE characters got the format error
MalformedAtLimit ==
  \E t \in 1..Len(tasks) :
     /\ tasks[t].data.length = MAX_MESSAGE_SIZE
     /\ ~tasks[t].data.text.ok
     /\ SentBy(t) = <<FormatError>>
     /\ store = RunOf(run).store

(***************************************************************************)
(* Observations on the routing of a frame                                   *)
(***************************************************************************)
Handlers == {"request_canvas_data", "pixel_update", "save_canvas"}

\* the frame of handler t is within the size ceiling and parses
Parsed(t) == ~(tasks[t].data.length > MAX_MESSAGE_SIZE) /\ tasks[t].data.text.ok

\* the Type field of the parsed frame (Undefined where there is none)
TypeField(t) == Prop(MessageOf(tasks[t].data), "Type")

HasType(t) == TypeField(t).k = "string" /\ Len(TypeField(t).s) > 0

\* the error frames among the replies of handler t
ErrorsOf(t) ==
  SelectSeq(SentBy(t), LAMBDA frame : Prop(frame, "Type") = Str("error"))

\* a frame naming one of the three operations reaches that operation's handler
Dispatched(u) ==
  (Parsed(u) /\ HasType(u) /\ TypeField(u).s \in Handlers)
     => tasks[u].op = TypeField(u).s

\* a handler that went through its store calls answered with its operation's
\* response and nothing else
AnsweredNormally(u) ==
  /\ Answered_request(u) =>
        /\ Len(SentBy(u)) >= 1
        /\ \A n \in 1..Len(SentBy(u)) :
              Prop(SentBy(u)[n], "Type") \in {Str("canvas_data"), Str("canvas_data_chunk")}
  /\ Acked(u) =>
        SentBy(u) = << ToJSON(IF tasks[u].op = "pixel_update"
                              THEN PixelUpdateAck(tasks[u].mapIdent, tasks[u].pixelData)
                              ELSE SaveCanvasAck(tasks[u].mapIdent, tasks[u].pixelData)) >>

(***************************************************************************)
(* C11.  Every frame that parses but whose value has no non-empty string    *)
(* Type (Type absent, empty, not a string, or the value no object at all)   *)
(* is answered with 'Missing or invalid message type' and reaches no        *)
(* handler.  The code does not keep this for the frame null.                *)
(***************************************************************************)
UntypedGetsStructureError ==
  \A t \in 1..Len(tasks) :
     (Parsed(t) /\ ~HasType(t)) =>
        /\ SentBy(t) = <<ErrorFrame("Missing or invalid message type")>>
        /\ tasks[t].op = "none"

(***************************************************************************)
(* C12.  A frame whose Type is a string other than the three operations is  *)
(* answered with exactly one error frame whose message names that Type and  *)
(* issues no store call; a frame handled afterwards on the same connection  *)
(* reaches its handler and is answered with its operation's response.       *)
(***************************************************************************)
HasUnknownType(t) == Parsed(t) /\ HasType(t) /\ TypeField(t).s \notin Handlers

UnknownTypeNamed ==
  \A t \in 1..Len(tasks) :
     HasUnknownType(t) =>
        /\ SentBy(t) = << Obj([Type |-> Str("error"),
                               Message |-> Str("Unknown message type: " \o TypeField(t).s)]) >>
        /\ tasks[t].pc = "done" /\ tasks[t].op = "none"
        /\ tasks[t].gets = 0 /\ tasks[t].puts = 0
        /\ \A u \in (t + 1)..Len(tasks) :
              tasks[u].conn = tasks[t].conn => Dispatched(u) /\ AnsweredNormally(u)

\* {"Type":"bogus"} was answered with the error naming bogus, the store is as it
\* was, and the request sent next on the connection got the stored canvas
UsableAfterUnknownType ==
  /\ Len(tasks) = 2
  /\ tasks[1].conn = tasks[2].conn
  /\ HasUnknownType(1)
  /\ SentBy(1) = <<ErrorFrame("Unknown message type: bogus")>>
  /\ store = RunOf(run).store
  /\ Answered_request(2)
  /\ Len(CanvasOf(M1)) > 0
  /\ SentBy(2) = <<CanvasDataFrame(M1, Arr(CanvasOf(M1)))>>

(***************************************************************************)
(* C13.  Validation before storage: a handler whose MapIdent fails          *)
(* validateMapId, or whose pixel fails validatePixelData, or whose          *)
(* save_canvas payload is no array or holds an element failing              *)
(* validatePixelData, sends its validation error and issues no get and no   *)
(* put; while no put was issued the store is as it was.                     *)
(***************************************************************************)
\* the validation error the frame of handler t calls for, "" when it is valid
ValidationError(t) ==
  LET message == MessageOf(tasks[t].data)
      payload == Prop(message, "PixelData")
  IN  CASE ~validateMapId(Prop(message, "MapIdent")) -> "Invalid map ID format"
        [] tasks[t].op = "pixel_update" /\ ~validatePixelData(Prop(message, "SinglePixel"))
             -> "Invalid pixel data format"
        [] tasks[t].op = "save_canvas" /\ payload.k # "array"
             -> "Pixel data must be an array"
        [] tasks[t].op = "save_canvas"
             /\ \E i \in 1..Len(payload.a) : ~validatePixelData(payload.a[i])
             -> "Invalid pixel data in array"
        [] OTHER -> ""

ValidationBeforeStorage ==
  /\ \A t \in 1..Len(tasks) :
        (tasks[t].op \in Handlers /\ ValidationError(t) # "") =>
           /\ SentBy(t) = <<ErrorFrame(ValidationError(t))>>
           /\ tasks[t].pc = "done"
           /\ tasks[t].gets = 0 /\ tasks[t].puts = 0
  /\ (\A t \in 1..Len(tasks) : tasks[t].puts = 0) => store = RunOf(run).store

\* save_canvas of a valid pixel followed by an invalid one was rejected and the
\* valid pixel is not in the store
InvalidElementStoresNothing ==
  \E t \in 1..Len(tasks) :
     /\ env
     /\ tasks[t].op = "save_canvas"
     /\ validateMapId(Prop(MessageOf(tasks[t].data), "MapIdent"))
     /\ LET payload == Prop(MessageOf(tasks[t].data), "PixelData")
        IN  /\ payload.k = "array" /\ Len(payload.a) = 2
            /\ validatePixelData(payload.a[1])
            /\ ~validatePixelData(payload.a[2])
            /\ \A n \in 1..Len(CanvasOf(M1)) : CanvasOf(M1)[n] # payload.a[1]
     /\ SentBy(t) = <<ErrorFrame("Invalid pixel data in array")>>
     /\ store = RunOf(run).store

(***************************************************************************)
(* C14.  Map isolation: the stored entry of a map that no resolved put was  *)
(* addressed to is as it was, every put goes to the key of the MapIdent its *)
(* frame names, and a request for a map returns frames naming that map      *)
(* whose pixels were in that map's canvas at the start or were submitted    *)
(* under that map.                                                          *)
(***************************************************************************)
\* the map identifiers in use
Maps == GoodMapIds \cup {M2, TEST_MAP_ID}

\* the pixel sequence under canvas:<mapIdent> at the start of the run
InitialCanvasOf(mapIdent) ==
  IF Key(mapIdent) \in DOMAIN RunOf(run).store
  THEN PixelsOf(RunOf(run).store[Key(mapIdent)]) ELSE <<>>

\* the pixels the frames handled so far submitted under mapIdent, as stored
SubmittedUnder(mapIdent) ==
  UNION { LET message == MessageOf(tasks[t].data)
          IN  IF Prop(message, "MapIdent") # mapIdent THEN {}
              ELSE IF tasks[t].op = "pixel_update"
                   THEN {ToJSON(Prop(message, "SinglePixel"))}
              ELSE IF tasks[t].op = "save_canvas" /\ Prop(message, "PixelData").k = "array"
                   THEN Range(ToJSON(Prop(message, "PixelData")).a)
              ELSE {}
          : t \in 1..Len(tasks) }

MapIsolation ==
  /\ \A m \in Maps :
        (\A t \in 1..Len(tasks) : Acked(t) => tasks[t].mapIdent # m) =>
           /\ Key(m) \in DOMAIN store <=> Key(m) \in DOMAIN RunOf(run).store
           /\ CanvasOf(m) = InitialCanvasOf(m)
  /\ \A t \in 1..Len(tasks) :
        tasks[t].puts = 1 =>
           tasks[t].mapIdent = Prop(MessageOf(tasks[t].data), "MapIdent")
  /\ \A t \in 1..Len(tasks) :
        (tasks[t].op = "request_canvas_data" /\ tasks[t].gets = 1) =>
           LET m == Prop(MessageOf(tasks[t].data), "MapIdent")
           IN  /\ \A n \in 1..Len(SentBy(t)) :
                     Prop(SentBy(t)[n], "Type") # Str("error") =>
                        Prop(SentBy(t)[n], "MapIdent") = m
               /\ ~tasks[t].failed =>
                     Range(PixelsSentBy(t)) \subseteq
                        Range(InitialCanvasOf(m)) \cup SubmittedUnder(m)

\* an update for m1 is acknowledged and stored, and the request for m2 that
\* follows returns m2's canvas, which is as it was
OtherMapUntouched ==
  /\ Len(tasks) = 2
  /\ Acked(1) /\ tasks[1].mapIdent = M1
  /\ Len(CanvasOf(M1)) > 0
  /\ Answered_request(2) /\ tasks[2].mapIdent = M2
  /\ Len(InitialCanvasOf(M2)) > 0
  /\ CanvasOf(M2) = InitialCanvasOf(M2)
  /\ SentBy(2) = <<CanvasDataFrame(M2, Arr(InitialCanvasOf(M2)))>>
  /\ \A n \in 1..Len(CanvasOf(M1)) : CanvasOf(M1)[n] \notin Range(CanvasOf(M2))

(***************************************************************************)
(* C15.  Exception isolation: a frame whose processing throws out of        *)
(* handleWebSocketMessage (the frame null) is answered with the one         *)
(* internal-error frame on its connection and issues no store call; the     *)
(* handlers of the other frames of the connection, earlier or later, reach  *)
(* their operation, can take their next step, and answer as they would.     *)
(***************************************************************************)
Throws(t) == Parsed(t) /\ MessageOf(tasks[t].data) = Null

CanContinue(u) ==
  /\ tasks[u].pc = "get" => ENABLED StoreGetResolves(u)
  /\ tasks[u].pc = "put" => ENABLED StorePutResolves(u)
  /\ tasks[u].pc = "delay" => ENABLED ChunkDelayElapses(u)

ExceptionIsolation ==
  \A t \in 1..Len(tasks) :
     Throws(t) =>
        /\ SentBy(t) = <<ErrorFrame("Internal server error")>>
        /\ tasks[t].pc = "done" /\ tasks[t].op = "none"
        /\ tasks[t].gets = 0 /\ tasks[t].puts = 0
        /\ \A u \in 1..Len(tasks) :
              (u # t /\ tasks[u].conn = tasks[t].conn) =>
                 Dispatched(u) /\ CanContinue(u) /\ AnsweredNormally(u)

\* a request was waiting for its get when the frame null arrived on the same
\* connection and got the internal error; the request then got its canvas
EarlierHandlerSurvives ==
  /\ Len(tasks) = 2
  /\ tasks[1].conn = tasks[2].conn
  /\ Throws(2)
  /\ ~tasks[1].alone
  /\ Answered_request(1)
  /\ [n \in 1..Len(sent[tasks[1].conn]) |-> sent[tasks[1].conn][n].by] = <<2, 1>>
  /\ SentBy(2) = <<ErrorFrame("Internal server error")>>
  /\ SentBy(1) = <<CanvasDataFrame(M1, Arr(CanvasOf(M1)))>>

NoInactiveStored ==
  \A key \in DOMAIN store :
     LET canvas == PixelsOf(store[key])
     IN  \A n \in 1..Len(canvas) : Prop(canvas[n], "IsActive") # Bool(FALSE)

(***************************************************************************)
(* C18.  validateMapId accepts a value exactly when it is a string of 1 to  *)
(* 100 characters, each in [A-Za-z0-9._-]: on the identifiers tried, and    *)
(* in every handler, which sends 'Invalid map ID format' exactly for the    *)
(* other values.                                                            *)
(***************************************************************************)
WellFormedMapIdent(v) ==
  /\ v.k = "string"
  /\ Len(v.s) >= 1 /\ Len(v.s) <= 100
  /\ \A i \in 1..Len(v.s) :
        v.s[i] \in Lower \cup Upper \cup Digit \cup {".", "_", "-"}

\* (the first conjunct speaks of no variable: it is evaluated once per run, in
\* the initial state)
MapIdValidation ==
  /\ tasks = <<>> =>
        \A v \in GoodMapIds \cup BadMapIds \cup {Undefined, M2, TEST_MAP_ID} :
           validateMapId(v) <=> WellFormedMapIdent(v)
  /\ \A t \in 1..Len(tasks) :
        tasks[t].op \in Handlers =>
           ( ErrorFrame("Invalid map ID format") \in Range(SentBy(t))
               <=> ~WellFormedMapIdent(Prop(MessageOf(tasks[t].data), "MapIdent")) )

\* an identifier of 100 characters went on to the store, one of 101 was rejected
MapIdAtLimitAccepted ==
  \E t, u \in 1..Len(tasks) :
     /\ Prop(MessageOf(tasks[t].data), "MapIdent") = Long(100)
     /\ tasks[t].gets = 1
     /\ tasks[t].mapIdent = Long(100)
     /\ Prop(MessageOf(tasks[u].data), "MapIdent") = Long(101)
     /\ SentBy(u) = <<ErrorFrame("Invalid map ID format")>>
     /\ tasks[u].gets = 0

(***************************************************************************)
(* C19.  validatePixelData accepts a pixel exactly when it has Position     *)
(* with numeric x and y, Color with numeric r, g, b and a, a non-empty      *)
(* string PlacedBy and a boolean IsActive.  The code does not keep this:    *)
(* it accepts the empty PlacedBy.                                           *)
(***************************************************************************)
IsNumber(v) == v.k = "number"

WellFormedPixel(p) ==
  /\ p.k = "object"
  /\ Prop(p, "Position").k = "object"
  /\ IsNumber(Prop(Prop(p, "Position"), "x")) /\ IsNumber(Prop(Prop(p, "Position"), "y"))
  /\ Prop(p, "Color").k = "object"
  /\ \A c \in {"r", "g", "b", "a"} : IsNumber(Prop(Prop(p, "Color"), c))
  /\ Prop(p, "PlacedBy").k = "string" /\ Len(Prop(p, "PlacedBy").s) > 0
  /\ Prop(p, "IsActive").k = "boolean"

PixelValidation ==
  \A t \in 1..Len(tasks) :
     (tasks[t].op = "pixel_update"
        /\ validateMapId(Prop(MessageOf(tasks[t].data), "MapIdent"))) =>
        ( ErrorFrame("Invalid pixel data format") \in Range(SentBy(t))
            <=> ~WellFormedPixel(Prop(MessageOf(tasks[t].data), "SinglePixel")) )

(***************************************************************************)
(* C20.  The session of the test client, which names the map in MapId, on   *)
(* a fresh map with a working store: request_canvas_data is answered with   *)
(* canvas_data, pixel_update with pixel_update_ack, save_canvas with        *)
(* save_canvas_ack, and no error frame is sent.  The handlers read          *)
(* MapIdent, so they do not keep this.                                      *)
(***************************************************************************)
ExpectedResponse(type) ==
  CASE type = "request_canvas_data" -> "canvas_data"
    [] type = "pixel_update" -> "pixel_update_ack"
    [] type = "save_canvas" -> "save_canvas_ack"

TestClientHappyPath ==
  \A t \in 1..Len(tasks) :
     (tasks[t].data \in TestFrames /\ tasks[t].pc = "done" /\ ~tasks[t].failed) =>
        /\ ErrorsOf(t) = <<>>
        /\ Len(SentBy(t)) = 1
        /\ Prop(SentBy(t)[1], "Type") = Str(ExpectedResponse(TypeField(t).s))

(***************************************************************************)
(* C21.  Last write wins by arrival order: of two acknowledged active       *)
(* pixel_updates for one Position of one map (finite coordinates, no other  *)
(* writer), the stored pixel at the Position is the payload of the frame    *)
(* that arrived later.  The code does not keep this when the two handlers   *)
(* overlap: the put that resolves last wins, whichever frame issued it.     *)
(***************************************************************************)
\* JSON writes the value as it is
WrittenAsIs(v) == ToJSON(v) = v

LastArrivalWins ==
  \A t, u \in 1..Len(tasks) :
     ( /\ t < u
       /\ Acked(t) /\ Acked(u)
       /\ IsUpdate(t, TRUE) /\ IsUpdate(u, TRUE)
       /\ tasks[t].mapIdent = tasks[u].mapIdent
       /\ SamePosition(tasks[t].pixelData, tasks[u].pixelData)
       /\ WrittenAsIs(tasks[t].pixelData) /\ WrittenAsIs(tasks[u].pixelData)
       /\ \A w \in 1..Len(tasks) : w \notin {t, u} => tasks[w].puts = 0 )
     => LET canvas == CanvasOf(tasks[u].mapIdent)
        IN  \A n \in EntriesAt(canvas, tasks[u].pixelData) :
               canvas[n] = tasks[u].pixelData

(***************************************************************************)
(* C22.  save_canvas bypasses the merge: with the binding present, a        *)
(* save_canvas of a valid MapIdent and an array P of valid pixels issues no *)
(* get, puts a text that reads back as P, is acknowledged with pixelCount   *)
(* = length of P, and with no other handler in progress beside it and no    *)
(* later put the stored canvas is P.  The code does not keep this for a     *)
(* pixel with a non-finite number, which is written as null.                *)
(***************************************************************************)
SaveVerbatim ==
  \A t \in 1..Len(tasks) :
     (env /\ tasks[t].op = "save_canvas" /\ ValidationError(t) = "") =>
        LET message == MessageOf(tasks[t].data)
            P == Prop(message, "PixelData")
        IN  /\ tasks[t].gets = 0 /\ tasks[t].puts = 1
            /\ tasks[t].canvasData = Undefined
            /\ JSONparse(tasks[t].put) = P
            /\ Acked(t) =>
                 SentBy(t) = << Obj([Type |-> Str("save_canvas_ack"),
                                     MapIdent |-> Prop(message, "MapIdent"),
                                     pixelCount |-> Num(Len(P.a))]) >>
            /\ (Acked(t) /\ tasks[t].alone /\ NoLaterPut(t))
               => CanvasOf(tasks[t].mapIdent) = P.a

(***************************************************************************)
(* C23.  Storage failure: a handler whose get or put rejected, or whose     *)
(* loaded value could not be decoded or used, sends exactly one frame, the  *)
(* error with its operation's storage-failure message; while no put has     *)
(* resolved the store is as it was.                                         *)
(***************************************************************************)
StorageFailureReported ==
  /\ \A t \in 1..Len(tasks) :
        tasks[t].failed =>
           /\ tasks[t].pc = "done"
           /\ tasks[t].op \in Handlers
           /\ SentBy(t) =
                << Obj([Type |-> Str("error"),
                        Message |-> Str(CASE tasks[t].op = "request_canvas_data"
                                               -> "Failed to load canvas data"
                                          [] tasks[t].op = "pixel_update"
                                               -> "Failed to update pixel"
                                          [] tasks[t].op = "save_canvas"
                                               -> "Failed to save canvas")]) >>
  /\ (\A t \in 1..Len(tasks) : ~Acked(t)) => store = RunOf(run).store

\* a save_canvas whose put rejected and a request whose stored text is no JSON,
\* each answered with its own failure message, the store as it was
FailuresReported ==
  /\ Len(tasks) = 2
  /\ tasks[1].op = "save_canvas" /\ tasks[1].puts = 1 /\ tasks[1].failed
  /\ SentBy(1) = <<ErrorFrame("Failed to save canvas")>>
  /\ tasks[2].op = "request_canvas_data" /\ tasks[2].failed
  /\ tasks[2].error = "SyntaxError: Unexpected token"
  /\ SentBy(2) = <<ErrorFrame("Failed to load canvas data")>>
  /\ store = RunOf(run).store

(***************************************************************************)
(* C24.  No internal detail leaks: the message of every error frame is one  *)
(* of the fixed texts, or the unknown-type text naming the Type of the      *)
(* frame it answers; two handlers of the same frame that failed for         *)
(* different reasons sent the same frames.                                  *)
(***************************************************************************)
FixedMessages ==
  { "Message too large", "Invalid JSON format", "Missing or invalid message type",
    "Invalid map ID format", "Invalid pixel data format", "Pixel data must be an array",
    "Invalid pixel data in array", "Failed to load canvas data",
    "Failed to update pixel", "Failed to save canvas", "Internal server error" }

NoDetailLeaks ==
  /\ \A t \in 1..Len(tasks) :
        \A n \in 1..Len(ErrorsOf(t)) :
           LET frame == ErrorsOf(t)[n]
           IN  /\ DOMAIN frame.o = {"Type", "Message"}
               /\ \/ Prop(frame, "Message") \in {Str(text) : text \in FixedMessages}
                  \/ /\ HasUnknownType(t)
                     /\ Prop(frame, "Message") =
                          Str("Unknown message type: " \o TypeField(t).s)
  /\ \A t, u \in 1..Len(tasks) :
        ( /\ tasks[t].failed /\ tasks[u].failed
          /\ tasks[t].data = tasks[u].data )
        => SentBy(t) = SentBy(u)

\* the same request failed twice, the store giving a different reason each
\* time, and both got the same one frame
SameFrameForBothErrors ==
  \E t, u \in 1..Len(tasks) :
     /\ tasks[t].failed /\ tasks[u].failed
     /\ tasks[t].data = tasks[u].data
     /\ tasks[t].error \in StoreErrors /\ tasks[u].error \in StoreErrors
     /\ tasks[t].error # tasks[u].error
     /\ SentBy(t) = <<ErrorFrame("Failed to load canvas data")>>
     /\ SentBy(u) = SentBy(t)

(***************************************************************************)
(* C25.  Acknowledgement after write, with the binding present: a           *)
(* pixel_update_ack or save_canvas_ack is sent only by a handler whose put  *)
(* has resolved, and a pixel_update_ack carries the MapIdent and the        *)
(* SinglePixel of the frame it answers.  The code does not keep the echo    *)
(* for a pixel with a non-finite number, and without the binding it         *)
(* acknowledges with no put at all.                                         *)
(***************************************************************************)
AckAfterWrite ==
  env =>
    \A t \in 1..Len(tasks) :
       \A n \in 1..Len(SentBy(t)) :
          LET frame == SentBy(t)[n]
              message == MessageOf(tasks[t].data)
          IN  /\ Prop(frame, "Type") \in {Str("pixel_update_ack"), Str("save_canvas_ack")} =>
                   /\ tasks[t].puts = 1 /\ tasks[t].pc = "done" /\ ~tasks[t].failed
                   /\ Prop(frame, "MapIdent") = Prop(message, "MapIdent")
              /\ Prop(frame, "Type") = Str("pixel_update_ack") =>
                   Prop(frame, "SinglePixel") = Prop(message, "SinglePixel")

(***************************************************************************)
(* C26.  Merge frame: the merge of a pixel_update for Position p into the   *)
(* loaded canvas leaves the entries at other Positions as they are and in   *)
(* their order; an active update for an absent p appends the pixel, an      *)
(* active update for a present p replaces the first entry at p where it is, *)
(* a delete removes the entries at p and nothing else; the text put is the  *)
(* merged sequence.                                                         *)
(***************************************************************************)
\* the entries of a pixel sequence at other positions than pixel's, in order
Others(canvas, pixel) == SelectSeq(canvas, LAMBDA e : ~SamePosition(e, pixel))

Merged(t) == tasks[t].op = "pixel_update" /\ tasks[t].puts = 1

MergeFrame ==
  \A t \in 1..Len(tasks) :
     Merged(t) =>
        LET loaded == tasks[t].canvasData.a
            pixel == tasks[t].pixelData
            at == EntriesAt(loaded, pixel)
            result == ApplyUpdate(loaded, pixel)
        IN  /\ tasks[t].put = JSONstringify(Arr(result))
            /\ Others(result, pixel) = Others(loaded, pixel)
            /\ (IsUpdate(t, TRUE) /\ at = {}) => result = Append(loaded, pixel)
            /\ (IsUpdate(t, TRUE) /\ at # {}) =>
                  /\ Len(result) = Len(loaded)
                  /\ \A n \in 1..Len(loaded) :
                        result[n] = IF n \in at /\ \A o \in at : n <= o
                                    THEN pixel ELSE loaded[n]
            /\ IsUpdate(t, FALSE) => result = Others(loaded, pixel)

\* an active update replaced the first of two loaded entries where it was
ReplacedInPlace ==
  \E t \in 1..Len(tasks) :
     /\ Merged(t) /\ Acked(t) /\ IsUpdate(t, TRUE)
     /\ Len(tasks[t].canvasData.a) = 2
     /\ EntriesAt(tasks[t].canvasData.a, tasks[t].pixelData) = {1}
     /\ tasks[t].canvasData.a[1] # tasks[t].pixelData
     /\ CanvasOf(tasks[t].mapIdent) = <<tasks[t].pixelData, tasks[t].canvasData.a[2]>>

(***************************************************************************)
(* C27.  Handlers are not serialized per connection: while a handler is     *)
(* suspended at a store call or a timer, its connection takes the next      *)
(* frame and starts its handler; two pixel_updates of one connection that   *)
(* both loaded the same canvas lose one update as those of two connections  *)
(* do.                                                                      *)
(***************************************************************************)
NotSerializedPerConnection ==
  /\ \A t \in 1..Len(tasks) :
        (Running(tasks[t]) /\ Len(tasks) < MaxFrames) =>
           ENABLED (\E data \in RunOf(run).pool : Receive(tasks[t].conn, data))
  /\ \A t, u \in 1..Len(tasks) :
        (BothLoadedTheSame(t, u) /\ tasks[t].conn = tasks[u].conn) =>
           LET canvas == CanvasOf(tasks[t].mapIdent)
           IN  (EntriesAt(canvas, tasks[t].pixelData) = {})
                  # (EntriesAt(canvas, tasks[u].pixelData) = {})

\* one connection sent two updates; the second was acknowledged before the
\* first, and the stored canvas holds the first pixel but not the second
SameConnectionOutOfOrder ==
  \E t, u \in 1..Len(tasks) :
     /\ t < u
     /\ tasks[t].conn = tasks[u].conn
     /\ BothLoadedTheSame(t, u)
     /\ [n \in 1..Len(sent[tasks[t].conn]) |-> sent[tasks[t].conn][n].by] = <<u, t>>
     /\ SentBy(u) = <<PixelUpdateAck(tasks[u].mapIdent, tasks[u].pixelData)>>
     /\ EntriesAt(CanvasOf(tasks[t].mapIdent), tasks[t].pixelData) # {}
     /\ EntriesAt(CanvasOf(tasks[t].mapIdent), tasks[u].pixelData) = {}

(***************************************************************************)
(* C28.  A stalled store call blocks only its own handler.  Under           *)
(* StalledSpec the store call of the first handler may stay pending         *)
(* forever: while it is pending every other connection takes a frame, and   *)
(* every frame taken on another connection is eventually answered and its   *)
(* handler ended.                                                           *)
(***************************************************************************)
\* handler t has ended and the last frame it sent closes its response: an
\* error, an acknowledgement, a canvas_data, or the chunk flagged IsLastChunk
AnsweredAndEnded(t) ==
  /\ t \in 1..Len(tasks)
  /\ tasks[t].pc = "done"
  /\ SentBy(t) # <<>>
  /\ LET last == SentBy(t)[Len(SentBy(t))]
     IN  \/ Prop(last, "Type") \in {Str("error"), Str("pixel_update_ack"),
                                    Str("save_canvas_ack"), Str("canvas_data")}
         \/ /\ Prop(last, "Type") = Str("canvas_data_chunk")
            /\ Prop(last, "IsLastChunk") = Bool(TRUE)

\* the first handler is suspended at a store call
Stalled == Len(tasks) >= 1 /\ tasks[1].pc \in {"get", "put"}

StallBlocksOnlyItself ==
  /\ [](\A c \in Conns :
          (Stalled /\ Len(tasks) < MaxFrames
             /\ c \in RunOf(run).conns /\ c # tasks[1].conn) =>
             ENABLED (\E data \in RunOf(run).pool : Receive(c, data)))
  /\ \A u \in 2..MaxFrames :
        []((u <= Len(tasks) /\ tasks[u].conn # tasks[1].conn) => <>AnsweredAndEnded(u))

\* the handler of c1 is still waiting for its get while a pixel_update that
\* arrived later on c2 for the same map is stored and acknowledged
AnsweredBesideStalled ==
  /\ Len(tasks) = 2
  /\ Stalled /\ tasks[1].pc = "get" /\ tasks[1].conn = "c1"
  /\ tasks[2].conn = "c2"
  /\ tasks[2].mapIdent = tasks[1].mapIdent
  /\ Acked(2) /\ AnsweredAndEnded(2)
  /\ SentBy(1) = <<>>

(***************************************************************************)
(* C29.  Every frame is answered.  Under FairSpec, where every store call   *)
(* settles and every timer fires, every frame taken is eventually answered  *)
(* on its connection and its handler ended, the last frame being an error,  *)
(* an acknowledgement, a canvas_data or the chunk flagged IsLastChunk.       *)
(***************************************************************************)
EveryFrameAnswered ==
  \A u \in 1..MaxFrames : [](u <= Len(tasks) => <>AnsweredAndEnded(u))

\* a chunked transfer ended with its last chunk and an update whose get was
\* rejected ended with its error frame
TransferAndFailureAnswered ==
  /\ Len(tasks) = 2
  /\ \A t \in 1..2 : AnsweredAndEnded(t)
  /\ \E t \in 1..2 :
        /\ Transfers(t)
        /\ Len(SentBy(t)) = TotalChunks(Len(tasks[t].canvasData.a))
        /\ Len(SentBy(t)) > 1
  /\ \E t \in 1..2 :
        /\ tasks[t].op = "pixel_update" /\ tasks[t].failed /\ tasks[t].puts = 0
        /\ SentBy(t) = <<ErrorFrame("Failed to update pixel")>>

(***************************************************************************)
(* C30.  Snapshot consistency of a chunked transfer: chunk n of a transfer  *)
(* is the n-th slice of CHUNK_SIZE pixels of the sequence the request       *)
(* loaded, with TotalChunks computed from that sequence, whatever the store *)
(* holds when the chunk is sent.                                            *)
(***************************************************************************)
SnapshotConsistency ==
  \A t \in 1..Len(tasks) :
     Transfers(t) =>
        LET loaded == tasks[t].canvasData.a
            total == CeilDiv(Len(loaded), CHUNK_SIZE)
            chunks == SentBy(t)
        IN  \A n \in 1..Len(chunks) :
               chunks[n] =
                 Obj([Type |-> Str("canvas_data_chunk"),
                      MapIdent |-> tasks[t].mapIdent,
                      PixelData |->
                         Arr(SubSeq(loaded, (n - 1) * CHUNK_SIZE + 1,
                                    IF n * CHUNK_SIZE < Len(loaded)
                                    THEN n * CHUNK_SIZE ELSE Len(loaded))),
                      ChunkIndex |-> Num(n - 1),
                      TotalChunks |-> Num(total),
                      IsLastChunk |-> Bool(n = total)])

\* a delete on the same connection was acknowledged between the two chunks of
\* a transfer; the stored canvas is one pixel shorter than the one transferred
ChangedDuringTransfer ==
  \E t, u \in 1..Len(tasks) :
     /\ Transfers(t) /\ tasks[t].pc = "done"
     /\ Acked(u) /\ IsUpdate(u, FALSE)
     /\ tasks[u].conn = tasks[t].conn /\ tasks[u].mapIdent = tasks[t].mapIdent
     /\ [n \in 1..Len(sent[tasks[t].conn]) |-> sent[tasks[t].conn][n].by] = <<t, u, t>>
     /\ Len(CanvasOf(tasks[t].mapIdent)) = Len(tasks[t].canvasData.a) - 1
     /\ PixelsSentBy(t) = tasks[t].canvasData.a

(***************************************************************************)
(* C31.  request_canvas_data is read-only: its handler issues no put, and   *)
(* no step of it, from the arrival of the frame to its last frame sent      *)
(* (canvas_data, chunk or error), changes the store.                        *)
(***************************************************************************)
\* this step is the arrival of frame t or a continuation of handler t
StepOf(t) ==
  \/ t > Len(tasks)
  \/ /\ t <= Len(tasks)
     /\ [tasks'[t] EXCEPT !.alone = tasks[t].alone] # tasks[t]

RequestReadOnly ==
  /\ [](\A t \in 1..Len(tasks) :
          tasks[t].op = "request_canvas_data" =>
             tasks[t].puts = 0 /\ tasks[t].put = NotJSON /\ tasks[t].pc # "put")
  /\ [][\A t \in 1..Len(tasks') :
          (tasks'[t].op = "request_canvas_data" /\ StepOf(t)) => store' = store]_vars

\* the same request failed on a rejected get and was answered with the stored
\* canvas, and the store is as it was
RequestsLeftStore ==
  /\ Len(tasks) = 2
  /\ tasks[1].data = tasks[2].data
  /\ tasks[1].op = "request_canvas_data"
  /\ tasks[1].failed /\ SentBy(1) = <<ErrorFrame("Failed to load canvas data")>>
  /\ Answered_request(2)
  /\ SentBy(2) = <<CanvasDataFrame(tasks[2].mapIdent, Arr(CanvasOf(tasks[2].mapIdent)))>>
  /\ CanvasOf(tasks[2].mapIdent) # <<>>
  /\ store = RunOf(run).store

(***************************************************************************)
(* C32.  Merge on a canvas that holds several entries at one Position: an   *)
(* active pixel_update for the Position replaces the first of them and      *)
(* leaves the others where they are, so the loaded and the merged canvas    *)
(* have entries at the Position at the same indices; an inactive one leaves *)
(* no entry at the Position.                                                *)
(***************************************************************************)
\* the least element of a non-empty set of indices
First(indices) == CHOOSE n \in indices : \A o \in indices : n <= o

MergeOnDuplicates ==
  \A t \in 1..Len(tasks) :
     Merged(t) =>
        LET loaded == tasks[t].canvasData.a
            pixel == tasks[t].pixelData
            at == EntriesAt(loaded, pixel)
            result == PixelsOf(tasks[t].put)
        IN  /\ (IsUpdate(t, TRUE) /\ at # {}) =>
                  /\ EntriesAt(result, pixel) = at
                  /\ result[First(at)] = ToJSON(pixel)
                  /\ \A n \in at \ {First(at)} : result[n] = loaded[n]
            /\ IsUpdate(t, FALSE) => EntriesAt(result, pixel) = {}

\* save_canvas stored two entries at one Position; an active update for it was
\* acknowledged and the stored canvas holds the update first and still holds
\* the second entry, three pixels in all
FirstOfTwoReplaced ==
  \E t \in 1..Len(tasks) :
     /\ Merged(t) /\ Acked(t) /\ IsUpdate(t, TRUE) /\ tasks[t].alone
     /\ EntriesAt(tasks[t].canvasData.a, tasks[t].pixelData) = {1, 3}
     /\ tasks[t].canvasData.a[1] # tasks[t].pixelData
     /\ LET canvas == CanvasOf(tasks[t].mapIdent)
        IN  /\ Len(canvas) = 3
            /\ canvas[1] = tasks[t].pixelData
            /\ canvas[3] = tasks[t].canvasData.a[3]
            /\ EntriesAt(canvas, tasks[t].pixelData) = {1, 3}

(***************************************************************************)
(* C33.  Stored data stays well-formed: in a run that starts from an empty  *)
(* store every key stored is canvas:<id> of a frame's MapIdent accepted by  *)
(* validateMapId, every stored text reads back as an array whose elements   *)
(* all pass validatePixelData, and no merge has failed on a loaded entry.   *)
(* The code does not keep this for a pixel with a non-finite number, which  *)
(* is stored with null in its place.                                        *)
(***************************************************************************)
StoredWellFormed ==
  RunOf(run).store = <<>> =>
     /\ \A key \in DOMAIN store :
           /\ \E t \in 1..Len(tasks) :
                 /\ validateMapId(tasks[t].mapIdent)
                 /\ key = Key(tasks[t].mapIdent)
           /\ ~JSONparseThrows(store[key])
           /\ JSONparse(store[key]).k = "array"
           /\ \A n \in 1..Len(JSONparse(store[key]).a) :
                 validatePixelData(JSONparse(store[key]).a[n])
     /\ \A t \in 1..Len(tasks) :
           tasks[t].failed => tasks[t].error \in StoreErrors

====
